---------------------------- MODULE Spec2Model ----------------------------
(***************************************************************************)
(* A model of the coordinate navigator of the battleship grid engine      *)
(* (src/src/grid/coordinate-navigator.ts).                                 *)
(*                                                                         *)
(* The navigator is built around two axes given by adjacency functions.    *)
(* Column and row indices are modelled as 1..numCols and 1..numRows        *)
(* (column A is 1, B is 2, ...); the adjacency functions are function      *)
(* values that map the last (first) index of an axis to Undefined.  A      *)
(* caller picks an operation and its arguments, the operation runs to      *)
(* completion, and the caller takes the result (Return).                   *)
(***************************************************************************)
EXTENDS Integers, Sequences, FiniteSets

VARIABLES
    numCols,        \* number of column indices of the grid the finders describe
    numRows,        \* number of row indices
    reference,      \* CoordinateNavigator.reference
    cachedOrigin,   \* CoordinateNavigator.cachedOrigin
    op,             \* the operation the caller has just run ("idle" when none)
    args,           \* its arguments
    result,         \* its return value
    raised,         \* whether it ended by throwing instead of returning
    loopable,       \* a LoopableIndices: indices, initialIndex, nextIndexIndex
    calls           \* number of calls of loopable.getNextIndex so far

vars == <<numCols, numRows, reference, cachedOrigin, op, args, result, raised,
          loopable, calls>>

(***************************************************************************)
(* Bounds of the model.                                                    *)
(***************************************************************************)
MaxCols == 3
MaxRows == 3
MaxCoords == 4
MaxShipSize == 4
MaxIndices == 3
MaxCalls == 7

(***************************************************************************)
(* Values.                                                                 *)
(***************************************************************************)
\* JavaScript's undefined, as returned by an adjacency function at a boundary.
Undefined == 0

\* Number.NaN, the fallback distance of a non-aligned candidate.
NaN == -1

HORIZONTAL == "HORIZONTAL"
VERTICAL == "VERTICAL"

\* The failure value carried by the left arm of calculateDistance's result.
NonAlignedCoordinates == "NonAlignedCoordinates"

Left(v) == [isRight |-> FALSE, value |-> v]
Right(v) == [isRight |-> TRUE, value |-> v]

Coordinate(c, r) == [columnIndex |-> c, rowIndex |-> r]

ColumnIndices == 1..numCols
RowIndices == 1..numRows

\* Every coordinate of the grid.
GridCoordinates == {Coordinate(c, r) : c \in ColumnIndices, r \in RowIndices}

\* Array.prototype.filter(isNotUndefined) / List.filter(isNotUndefined)
filterNotUndefined(s) == SelectSeq(s, LAMBDA x : x # Undefined)

(***************************************************************************)
(* The axes handed to the constructor.                                     *)
(***************************************************************************)
findPreviousColumnIndex ==
    [i \in ColumnIndices |-> IF i > 1 THEN i - 1 ELSE Undefined]

findNextColumnIndex ==
    [i \in ColumnIndices |-> IF i < numCols THEN i + 1 ELSE Undefined]

findPreviousRowIndex ==
    [i \in RowIndices |-> IF i > 1 THEN i - 1 ELSE Undefined]

findNextRowIndex ==
    [i \in RowIndices |-> IF i < numRows THEN i + 1 ELSE Undefined]

columnIndexSorter(left, right) == left - right

rowIndexSorter(left, right) == left - right

(***************************************************************************)
(* createCoordinatesSorter: row index first, then column index.            *)
(***************************************************************************)
coordinatesSorterColumnMajor(left, right) ==
    LET columnSortResult == columnIndexSorter(left.columnIndex, right.columnIndex)
    IN  IF columnSortResult # 0
        THEN columnSortResult
        ELSE rowIndexSorter(left.rowIndex, right.rowIndex)

coordinatesSorter(left, right) ==
    LET rowSortResult == rowIndexSorter(left.rowIndex, right.rowIndex)
    IN  IF rowSortResult # 0
        THEN rowSortResult
        ELSE columnIndexSorter(left.columnIndex, right.columnIndex)

\* Insert x into the sorted sequence s after every element that does not sort
\* after it (the sort is stable).
RECURSIVE insertSorted(_, _)
insertSorted(s, x) ==
    IF s = <<>> THEN <<x>>
    ELSE IF coordinatesSorter(Head(s), x) <= 0
         THEN <<Head(s)>> \o insertSorted(Tail(s), x)
         ELSE <<x>> \o s

\* List.sort(coordinatesSorter) / Array.sort(coordinatesSorter)
RECURSIVE sortCoordinates(_)
sortCoordinates(s) ==
    IF s = <<>> THEN <<>>
    ELSE insertSorted(sortCoordinates(SubSeq(s, 1, Len(s) - 1)), s[Len(s)])

(***************************************************************************)
(* getSurroundingCoordinates                                               *)
(***************************************************************************)
\* As getSurroundingCoordinates, without the final sort.
getSurroundingCoordinatesUnsorted(target) ==
    LET potentialColumnIndices ==
            filterNotUndefined(<<findPreviousColumnIndex[target.columnIndex],
                                 findNextColumnIndex[target.columnIndex]>>)
        potentialRowIndices ==
            filterNotUndefined(<<findPreviousRowIndex[target.rowIndex],
                                 findNextRowIndex[target.rowIndex]>>)
    IN  [i \in 1..Len(potentialColumnIndices) |->
            Coordinate(potentialColumnIndices[i], target.rowIndex)]
        \o [i \in 1..Len(potentialRowIndices) |->
            Coordinate(target.columnIndex, potentialRowIndices[i])]

\* As getSurroundingCoordinates, with the previous row index taken twice.
getSurroundingCoordinatesRowTwice(target) ==
    LET potentialColumnIndices ==
            filterNotUndefined(<<findPreviousColumnIndex[target.columnIndex],
                                 findNextColumnIndex[target.columnIndex]>>)
        potentialRowIndices ==
            filterNotUndefined(<<findPreviousRowIndex[target.rowIndex],
                                 findPreviousRowIndex[target.rowIndex]>>)
    IN  sortCoordinates(
            [i \in 1..Len(potentialColumnIndices) |->
                Coordinate(potentialColumnIndices[i], target.rowIndex)]
            \o [i \in 1..Len(potentialRowIndices) |->
                Coordinate(target.columnIndex, potentialRowIndices[i])])

getSurroundingCoordinates(target) ==
    LET potentialColumnIndices ==
            filterNotUndefined(<<findPreviousColumnIndex[target.columnIndex],
                                 findNextColumnIndex[target.columnIndex]>>)
        potentialRowIndices ==
            filterNotUndefined(<<findPreviousRowIndex[target.rowIndex],
                                 findNextRowIndex[target.rowIndex]>>)
    IN  sortCoordinates(
            [i \in 1..Len(potentialColumnIndices) |->
                Coordinate(potentialColumnIndices[i], target.rowIndex)]
            \o [i \in 1..Len(potentialRowIndices) |->
                Coordinate(target.columnIndex, potentialRowIndices[i])])

(***************************************************************************)
(* calculateDistance                                                       *)
(***************************************************************************)
\* The while loop of calculateDistanceBetweenIndices, entered with the
\* current index (next) and the steps taken so far (count).
RECURSIVE distanceLoop(_, _, _, _)
distanceLoop(next, second, findNextIndex, count) ==
    IF next = second THEN Right(count)
    ELSE LET potentialNext == findNextIndex[next]
         IN  IF potentialNext = Undefined
             THEN Left(Undefined)
             ELSE distanceLoop(potentialNext, second, findNextIndex, count + 1)

calculateDistanceBetweenIndices(first, second, findNextIndex) ==
    distanceLoop(first, second, findNextIndex, 0)

\* As calculateSortedDistance, without the check that the rows are equal.
calculateSortedDistanceColumnsOnly(first, second) ==
    IF first.columnIndex = second.columnIndex
    THEN LET distance == calculateDistanceBetweenIndices(
                             first.rowIndex, second.rowIndex, findNextRowIndex)
         IN  IF distance.isRight THEN distance ELSE Left(NonAlignedCoordinates)
    ELSE LET distance == calculateDistanceBetweenIndices(
                             first.columnIndex, second.columnIndex, findNextColumnIndex)
         IN  IF distance.isRight THEN distance ELSE Left(NonAlignedCoordinates)

\* calculateDistance once the pair is in sorter order.
calculateSortedDistance(first, second) ==
    IF first.columnIndex = second.columnIndex
    THEN LET distance == calculateDistanceBetweenIndices(
                             first.rowIndex, second.rowIndex, findNextRowIndex)
         IN  IF distance.isRight THEN distance ELSE Left(NonAlignedCoordinates)
    ELSE IF first.rowIndex = second.rowIndex
    THEN LET distance == calculateDistanceBetweenIndices(
                             first.columnIndex, second.columnIndex, findNextColumnIndex)
         IN  IF distance.isRight THEN distance ELSE Left(NonAlignedCoordinates)
    ELSE Left(NonAlignedCoordinates)

\* As calculateDistance, without putting the pair in sorter order first.
calculateDistanceNoSwap(first, second) ==
    calculateSortedDistance(first, second)

RECURSIVE calculateDistance(_, _)
calculateDistance(first, second) ==
    IF coordinatesSorter(first, second) > 0
    THEN calculateDistance(second, first)
    ELSE calculateSortedDistance(first, second)

\* Either.getOrElse
getOrElse(either, fallback) == IF either.isRight THEN either.value ELSE fallback

(***************************************************************************)
(* Structural equality of coordinates and the collections built on it.     *)
(***************************************************************************)
\* Coordinate.equals, used by Immutable's is() for List.contains and Map keys.
coordinateEquals(left, right) ==
    /\ left.columnIndex = right.columnIndex
    /\ left.rowIndex = right.rowIndex

\* List.contains
contains(list, value) == \E i \in 1..Len(list) : coordinateEquals(list[i], value)

\* Map.set on a map held as a sequence of <<key, value>> entries: an equal key
\* keeps its place and takes the new value, a new key is appended.  (A Map of
\* at most 8 entries iterates in insertion order.)
mapSet(map, key, value) ==
    IF \E i \in 1..Len(map) : coordinateEquals(map[i][1], key)
    THEN [i \in 1..Len(map) |->
            IF coordinateEquals(map[i][1], key) THEN <<map[i][1], value>> ELSE map[i]]
    ELSE Append(map, <<key, value>>)

\* ImmutableMap(entries)
RECURSIVE ImmutableMap(_)
ImmutableMap(entries) ==
    IF entries = <<>> THEN <<>>
    ELSE LET last == entries[Len(entries)]
         IN  mapSet(ImmutableMap(SubSeq(entries, 1, Len(entries) - 1)), last[1], last[2])

\* Collection.toOrderedSet on a list of indices: first occurrences, in order.
RECURSIVE toOrderedSet(_)
toOrderedSet(list) ==
    IF list = <<>> THEN <<>>
    ELSE LET init == toOrderedSet(SubSeq(list, 1, Len(list) - 1))
             last == list[Len(list)]
         IN  IF \E i \in 1..Len(init) : init[i] = last THEN init ELSE Append(init, last)

\* List.flatMap on a list of lists.
RECURSIVE flatten(_)
flatten(lists) ==
    IF lists = <<>> THEN <<>> ELSE Head(lists) \o flatten(Tail(lists))

(***************************************************************************)
(* findAlignments                                                          *)
(***************************************************************************)
\* The undefined alignment direction of two coordinates sharing no axis.
NoDirection == "undefined"

findCoordinatesAlignmentDirection(first, second) ==
    IF first.columnIndex = second.columnIndex THEN VERTICAL
    ELSE IF first.rowIndex = second.rowIndex THEN HORIZONTAL
    ELSE NoDirection

\* const candidatesMap
candidatesMap(coordinates) ==
    LET collection == sortCoordinates(coordinates)
    IN  ImmutableMap([index \in 1..Len(collection) |->
            <<collection[index], SubSeq(collection, index + 1, Len(collection))>>])

mapCandidateToPotentialAlignment(candidate, reference_) ==
    [candidate |-> candidate,
     alignment |-> findCoordinatesAlignmentDirection(candidate, reference_),
     distance |-> getOrElse(calculateDistance(candidate, reference_), NaN)]

\* As filterInvalidAlignmentCandidate, with distance < maxDistance.
filterInvalidAlignmentCandidateExclusive(alignmentCandidate, maxDistance) ==
    /\ alignmentCandidate.alignment # NoDirection
    /\ alignmentCandidate.distance # NaN
    /\ alignmentCandidate.distance < maxDistance

filterInvalidAlignmentCandidate(alignmentCandidate, maxDistance) ==
    /\ alignmentCandidate.alignment # NoDirection
    /\ alignmentCandidate.distance # NaN
    /\ alignmentCandidate.distance <= maxDistance

groupCandidatesFromDirection(direction, alignmentCandidates, reference_) ==
    LET kept == SelectSeq(alignmentCandidates, LAMBDA ac : ac.alignment = direction)
    IN  [direction |-> direction,
         coordinates |-> sortCoordinates(
             Append([i \in 1..Len(kept) |-> kept[i].candidate], reference_))]

\* alignmentIndex counts from 1 here and from 0 in the source.
\* As filterRedundantAlignments, removing an alignment as soon as one of its
\* coordinates is in the previous alignment.
filterRedundantAlignmentsAnyContained(alignment, alignmentIndex, alignments) ==
    IF alignmentIndex = 1 THEN TRUE
    ELSE LET previousAlignment == alignments[alignmentIndex - 1]
         IN  ~ (\E i \in 1..Len(alignment.coordinates) :
                    contains(previousAlignment.coordinates, alignment.coordinates[i]))

filterRedundantAlignments(alignment, alignmentIndex, alignments) ==
    IF alignmentIndex = 1 THEN TRUE
    ELSE LET previousAlignment == alignments[alignmentIndex - 1]
         IN  ~ (\A i \in 1..Len(alignment.coordinates) :
                    contains(previousAlignment.coordinates, alignment.coordinates[i]))

\* The chain of findAlignments up to the two size filters, before the
\* redundancy filter.
groupedAlignments(coordinates, maxDistance) ==
    LET nonEmpty == SelectSeq(candidatesMap(coordinates), LAMBDA e : Len(e[2]) > 0)
        valid == [k \in 1..Len(nonEmpty) |->
            <<nonEmpty[k][1],
              SelectSeq(
                  [i \in 1..Len(nonEmpty[k][2]) |->
                      mapCandidateToPotentialAlignment(nonEmpty[k][2][i], nonEmpty[k][1])],
                  LAMBDA ac : filterInvalidAlignmentCandidate(ac, maxDistance))>>]
        withCandidates == SelectSeq(valid, LAMBDA e : Len(e[2]) > 0)
        groups == [k \in 1..Len(withCandidates) |->
            <<groupCandidatesFromDirection(HORIZONTAL, withCandidates[k][2], withCandidates[k][1]),
              groupCandidatesFromDirection(VERTICAL, withCandidates[k][2], withCandidates[k][1])>>]
    IN  SelectSeq(flatten(groups), LAMBDA a : Len(a.coordinates) > 1)

\* List.filter(filterRedundantAlignments): the predicate sees the list filtered.
RECURSIVE filterWithIndex(_, _)
filterWithIndex(alignments, upTo) ==
    IF upTo = 0 THEN <<>>
    ELSE LET init == filterWithIndex(alignments, upTo - 1)
         IN  IF filterRedundantAlignments(alignments[upTo], upTo, alignments)
             THEN Append(init, alignments[upTo])
             ELSE init

findAlignments(coordinates, maxDistance) ==
    LET alignments == groupedAlignments(coordinates, maxDistance)
    IN  filterWithIndex(alignments, Len(alignments))

(***************************************************************************)
(* findAlignmentGaps and findNextExtremums                                 *)
(***************************************************************************)
\* What a failed assertion or an explicit throw leaves instead of a result.
Thrown == "Error"

\* The while loop of findIndexGaps, entered with the current index (next) and
\* the missing indices collected so far.
RECURSIVE gapsLoop(_, _, _, _, _)
gapsLoop(next, last, sortedIndices, findNextIndex, missingIndices) ==
    IF next = last THEN missingIndices
    ELSE LET potentialNext == findNextIndex[next]
         IN  IF potentialNext = Undefined
             THEN missingIndices
             ELSE gapsLoop(potentialNext, last, sortedIndices, findNextIndex,
                           IF \E i \in 1..Len(sortedIndices) : sortedIndices[i] = potentialNext
                           THEN missingIndices
                           ELSE Append(missingIndices, potentialNext))

\* As gapsLoop, without the test that the index stepped to is absent.
RECURSIVE gapsLoopKeepingPresent(_, _, _, _, _)
gapsLoopKeepingPresent(next, last, sortedIndices, findNextIndex, missingIndices) ==
    IF next = last THEN missingIndices
    ELSE LET potentialNext == findNextIndex[next]
         IN  IF potentialNext = Undefined
             THEN missingIndices
             ELSE gapsLoopKeepingPresent(potentialNext, last, sortedIndices, findNextIndex,
                                         Append(missingIndices, potentialNext))

\* As findIndexGaps, collecting every index stepped to.
findIndexGapsKeepingPresent(sortedIndices, findNextIndex) ==
    IF Len(sortedIndices) <= 1 THEN <<>>
    ELSE gapsLoopKeepingPresent(sortedIndices[1], sortedIndices[Len(sortedIndices)],
                                sortedIndices, findNextIndex, <<>>)

findIndexGaps(sortedIndices, findNextIndex) ==
    IF Len(sortedIndices) <= 1 THEN <<>>
    ELSE gapsLoop(sortedIndices[1], sortedIndices[Len(sortedIndices)],
                  sortedIndices, findNextIndex, <<>>)

\* alignment.coordinates.sort(sorter).map(c => c.columnIndex).toOrderedSet()
sortedColumnIndices(alignment) ==
    LET sorted == sortCoordinates(alignment.coordinates)
    IN  toOrderedSet([i \in 1..Len(sorted) |-> sorted[i].columnIndex])

\* alignment.coordinates.sort(sorter).map(c => c.rowIndex).toOrderedSet()
sortedRowIndices(alignment) ==
    LET sorted == sortCoordinates(alignment.coordinates)
    IN  toOrderedSet([i \in 1..Len(sorted) |-> sorted[i].rowIndex])

\* The call reaches the throw after the two direction branches.
findAlignmentGapsThrows(alignment) ==
    /\ Len(alignment.coordinates) > 1
    /\ alignment.direction # HORIZONTAL
    /\ alignment.direction # VERTICAL

findAlignmentGaps(alignment) ==
    IF Len(alignment.coordinates) <= 1 THEN <<>>
    ELSE IF alignment.direction = HORIZONTAL
    THEN LET rowIndex == alignment.coordinates[1].rowIndex
             missingColumns == findIndexGaps(sortedColumnIndices(alignment), findNextColumnIndex)
         IN  [i \in 1..Len(missingColumns) |-> Coordinate(missingColumns[i], rowIndex)]
    ELSE IF alignment.direction = VERTICAL
    THEN LET columnIndex == alignment.coordinates[1].columnIndex
             missingRows == findIndexGaps(sortedRowIndices(alignment), findNextRowIndex)
         IN  [i \in 1..Len(missingRows) |-> Coordinate(columnIndex, missingRows[i])]
    ELSE Thrown

\* As findIndexExtremums, pushing the index after the last before the index
\* before the first.
findIndexExtremumsLastFirst(sortedIndices, findPreviousIndex, findNextIndex) ==
    filterNotUndefined(
        (IF sortedIndices # <<>>
         THEN <<findNextIndex[sortedIndices[Len(sortedIndices)]]>>
         ELSE <<>>)
        \o (IF sortedIndices # <<>> THEN <<findPreviousIndex[sortedIndices[1]]>> ELSE <<>>))

findIndexExtremums(sortedIndices, findPreviousIndex, findNextIndex) ==
    filterNotUndefined(
        (IF sortedIndices # <<>> THEN <<findPreviousIndex[sortedIndices[1]]>> ELSE <<>>)
        \o (IF sortedIndices # <<>>
            THEN <<findNextIndex[sortedIndices[Len(sortedIndices)]]>>
            ELSE <<>>))

\* As findNextExtremumsThrows, throwing also where a coordinate is off the
\* row or the column of the first.
findNextExtremumsThrowsOffAxis(alignment) ==
    /\ Len(alignment.coordinates) # 0
    /\ \/ alignment.direction \notin {HORIZONTAL, VERTICAL}
       \/ \E i \in 1..Len(alignment.coordinates) :
            IF alignment.direction = HORIZONTAL
            THEN alignment.coordinates[i].rowIndex # alignment.coordinates[1].rowIndex
            ELSE alignment.coordinates[i].columnIndex # alignment.coordinates[1].columnIndex

\* The call reaches the throw after the two direction branches.
findNextExtremumsThrows(alignment) ==
    /\ Len(alignment.coordinates) # 0
    /\ alignment.direction # HORIZONTAL
    /\ alignment.direction # VERTICAL

findNextExtremums(alignment) ==
    IF Len(alignment.coordinates) = 0 THEN <<>>
    ELSE IF alignment.direction = HORIZONTAL
    THEN LET rowIndex == alignment.coordinates[1].rowIndex
             missingColumns == findIndexExtremums(sortedColumnIndices(alignment),
                                   findPreviousColumnIndex, findNextColumnIndex)
         IN  [i \in 1..Len(missingColumns) |-> Coordinate(missingColumns[i], rowIndex)]
    ELSE IF alignment.direction = VERTICAL
    THEN LET columnIndex == alignment.coordinates[1].columnIndex
             missingRows == findIndexExtremums(sortedRowIndices(alignment),
                                findPreviousRowIndex, findNextRowIndex)
         IN  [i \in 1..Len(missingRows) |-> Coordinate(columnIndex, missingRows[i])]
    ELSE Thrown

(***************************************************************************)
(* The grid origin.                                                        *)
(***************************************************************************)
\* The value of cachedOrigin while it is undefined.
UndefinedCoordinate == Coordinate(Undefined, Undefined)

\* As findFirstIndex, stopping after one previous step.
findFirstIndexOneStep(reference_, findPreviousIndex) ==
    LET potentialPreviousIndex == findPreviousIndex[reference_]
    IN  IF potentialPreviousIndex = Undefined
        THEN reference_
        ELSE potentialPreviousIndex

RECURSIVE findFirstIndex(_, _)
findFirstIndex(reference_, findPreviousIndex) ==
    LET potentialPreviousIndex == findPreviousIndex[reference_]
    IN  IF potentialPreviousIndex = Undefined
        THEN reference_
        ELSE findFirstIndex(potentialPreviousIndex, findPreviousIndex)

getOrigin(reference_, findPreviousColumnIndex_, findPreviousRowIndex_) ==
    Coordinate(findFirstIndex(reference_.columnIndex, findPreviousColumnIndex_),
               findFirstIndex(reference_.rowIndex, findPreviousRowIndex_))

\* The value getGridOrigin returns in the current state.
getGridOrigin ==
    IF cachedOrigin # UndefinedCoordinate
    THEN cachedOrigin
    ELSE getOrigin(reference, findPreviousColumnIndex, findPreviousRowIndex)

(***************************************************************************)
(* Axis arithmetic.                                                        *)
(***************************************************************************)
\* The reduce of findNextIndexByStep over range(0, stepSize).
RECURSIVE stepReduce(_, _, _)
stepReduce(getNextIndex, previousValue, stepsLeft) ==
    IF stepsLeft = 0 THEN previousValue
    ELSE stepReduce(getNextIndex,
                    IF previousValue = Undefined THEN Undefined ELSE getNextIndex[previousValue],
                    stepsLeft - 1)

\* As findNextIndexByStep, reducing over range(0, stepSize + 1).
findNextIndexByStepOneMore(getNextIndex, initialValue, stepSize) ==
    IF stepSize < 0 THEN Thrown
    ELSE stepReduce(getNextIndex, initialValue, stepSize + 1)

\* As findNextIndexByStep, returning undefined for a step of 0.
findNextIndexByStepNoneForZero(getNextIndex, initialValue, stepSize) ==
    IF stepSize < 0 THEN Thrown
    ELSE IF stepSize = 0 THEN Undefined
    ELSE stepReduce(getNextIndex, initialValue, stepSize)

findNextIndexByStep(getNextIndex, initialValue, stepSize) ==
    IF stepSize < 0 THEN Thrown
    ELSE stepReduce(getNextIndex, initialValue, stepSize)

\* A number a caller can pass as stepSize: `whole`, plus one half where
\* `half` is set.
Number(whole, half) == [whole |-> whole, half |-> half]

\* Number.isInteger
isInteger(number) == ~ number.half

\* One of the two assertions of findNextIndexByStep fails.
findNextIndexByStepThrows(stepSize) ==
    \/ ~ isInteger(stepSize)
    \/ ~ (stepSize.whole >= 0)

RECURSIVE createIndices(_, _)
createIndices(originIndex, getNextIndex) ==
    LET nextColumnIndex == getNextIndex[originIndex]
    IN  IF nextColumnIndex = Undefined
        THEN <<originIndex>>
        ELSE <<originIndex>> \o createIndices(nextColumnIndex, getNextIndex)

\* List.keyOf: the position (from 0) of the first element equal to value.
keyOf(list, value) ==
    (CHOOSE i \in 1..Len(list) :
        /\ list[i] = value
        /\ \A j \in 1..(i - 1) : list[j] # value) - 1

\* List.reverse
reverse(list) == [i \in 1..Len(list) |-> list[Len(list) + 1 - i]]

(***************************************************************************)
(* LoopableIndices                                                         *)
(***************************************************************************)
\* The value of nextIndexIndex while it is undefined.
UndefinedIndexIndex == -1

\* As loopableGetNextIndex, the first call leaving the cursor on the first
\* element of the indices.
loopableGetNextIndexFromFirst(indices, initialIndex, nextIndexIndex) ==
    IF nextIndexIndex = UndefinedIndexIndex
    THEN [index |-> initialIndex, nextIndexIndex |-> 0]
    ELSE LET newNextIndexIndex ==
                 IF nextIndexIndex + 1 < Len(indices) THEN nextIndexIndex + 1 ELSE 0
         IN  [index |-> indices[newNextIndexIndex + 1],
              nextIndexIndex |-> newNextIndexIndex]

\* As loopableGetNextIndex, never moving on from the initial index.
loopableGetNextIndexStaying(indices, initialIndex, nextIndexIndex) ==
    [index |-> initialIndex, nextIndexIndex |-> keyOf(indices, initialIndex)]

\* LoopableIndices.getNextIndex: the index returned and the new nextIndexIndex.
loopableGetNextIndex(indices, initialIndex, nextIndexIndex) ==
    IF nextIndexIndex = UndefinedIndexIndex
    THEN [index |-> initialIndex, nextIndexIndex |-> keyOf(indices, initialIndex)]
    ELSE LET newNextIndexIndex ==
                 IF nextIndexIndex + 1 < Len(indices) THEN nextIndexIndex + 1 ELSE 0
         IN  [index |-> indices[newNextIndexIndex + 1],
              nextIndexIndex |-> newNextIndexIndex]

\* The assertion of the constructor of LoopableIndices fails.
LoopableIndicesThrows(indices, initialIndex) ==
    ~ (\E i \in 1..Len(indices) : indices[i] = initialIndex)

\* new LoopableIndices(indices, initialIndex)
LoopableIndices(indices, initialIndex) ==
    [indices |-> indices, initialIndex |-> initialIndex,
     nextIndexIndex |-> UndefinedIndexIndex]

\* The indices returned by the first `count` calls of getNextIndex on a new
\* LoopableIndices, and the cursor after them.
RECURSIVE loopableTake(_, _, _)
loopableTake(indices, initialIndex, count) ==
    IF count = 0 THEN [taken |-> <<>>, nextIndexIndex |-> UndefinedIndexIndex]
    ELSE LET before == loopableTake(indices, initialIndex, count - 1)
             call == loopableGetNextIndex(indices, initialIndex, before.nextIndexIndex)
         IN  [taken |-> Append(before.taken, call.index),
              nextIndexIndex |-> call.nextIndexIndex]

(***************************************************************************)
(* traverseGrid                                                            *)
(***************************************************************************)
\* As findStartingCoordinates, over range(1, minShipSize).
findStartingCoordinatesSkippingOrigin(minShipSize) ==
    LET origin == getGridOrigin
        rows == filterNotUndefined(
                    [k \in 1..(minShipSize - 1) |->
                        findNextIndexByStep(findNextRowIndex, origin.rowIndex, k)])
    IN  sortCoordinates([i \in 1..Len(rows) |-> Coordinate(origin.columnIndex, rows[i])])

findStartingCoordinates(minShipSize) ==
    LET origin == getGridOrigin
        rows == filterNotUndefined(
                    [k \in 1..minShipSize |->
                        findNextIndexByStep(findNextRowIndex, origin.rowIndex, k - 1)])
    IN  sortCoordinates([i \in 1..Len(rows) |-> Coordinate(origin.columnIndex, rows[i])])

traverseGridDiagonally(columnIndices, minShipSize, potentialStartingCoordinates, startingCoordinate, findNextRowIndex_) ==
    IF ~ contains(potentialStartingCoordinates, startingCoordinate) THEN Thrown
    ELSE
    LET startingRows == [i \in 1..Len(potentialStartingCoordinates) |->
                            potentialStartingCoordinates[i].rowIndex]
        findNextRowByStep == [initialValue \in DOMAIN findNextRowIndex_ |->
                                 findNextIndexByStep(findNextRowIndex_, initialValue, minShipSize)]
        loopedRows == loopableTake(startingRows, startingCoordinate.rowIndex,
                                   Len(columnIndices)).taken
        traverseStartingCoordinates ==
            [i \in 1..Len(columnIndices) |-> Coordinate(columnIndices[i], loopedRows[i])]
    IN  flatten([i \in 1..Len(traverseStartingCoordinates) |->
            LET traverseFirstCoordinate == traverseStartingCoordinates[i]
                rowIndices == createIndices(traverseFirstCoordinate.rowIndex, findNextRowByStep)
            IN  [j \in 1..Len(rowIndices) |->
                    Coordinate(traverseFirstCoordinate.columnIndex, rowIndices[j])]])

traverseGridDiagonallyInDirection(minShipSize) ==
    LET origin == getGridOrigin
        columnIndices == createIndices(origin.columnIndex, findNextColumnIndex)
        startingCoordinates == findStartingCoordinates(minShipSize)
    IN  [i \in 1..Len(startingCoordinates) |->
            traverseGridDiagonally(columnIndices, minShipSize, startingCoordinates,
                                   startingCoordinates[i], findNextRowIndex)]

\* As mirror, looking the row up in the row indices not reversed.
mirrorNotReversed(coordinates) ==
    LET origin == getGridOrigin
        rowIndices == createIndices(origin.rowIndex, findNextRowIndex)
    IN  [i \in 1..Len(coordinates) |->
            Coordinate(coordinates[i].columnIndex,
                       rowIndices[keyOf(rowIndices, coordinates[i].rowIndex) + 1])]

mirror(coordinates) ==
    LET origin == getGridOrigin
        rowIndices == createIndices(origin.rowIndex, findNextRowIndex)
        reversedRowIndices == reverse(rowIndices)
    IN  [i \in 1..Len(coordinates) |->
            Coordinate(coordinates[i].columnIndex,
                       reversedRowIndices[keyOf(rowIndices, coordinates[i].rowIndex) + 1])]

traverseGrid(minShipSize) ==
    LET lists == traverseGridDiagonallyInDirection(minShipSize)
    IN  SelectSeq(flatten([i \in 1..Len(lists) |-> <<lists[i], mirror(lists[i])>>]),
                  LAMBDA list : Len(list) > 0)

(***************************************************************************)
(* The arguments callers pass.                                             *)
(***************************************************************************)
MaxOf(a, b) == IF a >= b THEN a ELSE b

\* The distance bounds worth telling apart on this grid: no two coordinates
\* of an axis are further apart than its length.
Distances == 1..MaxOf(numCols, numRows)

ShipSizes == 1..MaxShipSize

\* A set of coordinates as a list, in column-major descending order (an order
\* that is not the navigator's).
RECURSIVE listOf(_)
listOf(S) ==
    IF S = {} THEN <<>>
    ELSE LET top == CHOOSE x \in S :
                        \A y \in S : coordinatesSorterColumnMajor(x, y) >= 0
         IN  <<top>> \o listOf(S \ {top})

\* The collections handed to findAlignments: up to MaxCoords coordinates, at
\* most one of them listed twice.
CoordinateCollections ==
    LET sets == {S \in SUBSET GridCoordinates : Cardinality(S) <= MaxCoords}
    IN  {listOf(S) : S \in sets}
        \cup UNION {{Append(listOf(S), dup) : dup \in S} :
                        S \in {T \in sets : Cardinality(T) < MaxCoords}}

Range(list) == {list[i] : i \in 1..Len(list)}

\* Every alignment findAlignments returns for one of the collections.
FoundAlignments(collections) ==
    UNION {Range(findAlignments(cs, d)) : cs \in collections, d \in Distances}

\* The alignments handed to findAlignmentGaps and findNextExtremums: the ones
\* found, the same listed backwards, and the ones of at most one coordinate.
AlignmentsOf(collections) ==
    LET found == FoundAlignments(collections)
    IN  found
        \cup {[direction |-> a.direction, coordinates |-> reverse(a.coordinates)] :
                  a \in found}
        \cup {[direction |-> d, coordinates |-> cs] :
                  d \in {HORIZONTAL, VERTICAL},
                  cs \in {<<>>} \cup {<<c>> : c \in UNION {Range(l) : l \in collections}}}

Alignments == AlignmentsOf(CoordinateCollections)

\* The grids of the documented examples: columns A-E by rows 1-5, and the
\* standard grid, columns A-J by rows 1-10.
ExampleGrids == {<<5, 5>>, <<10, 10>>}

\* The hits of the documented examples: A1, A2, B2, A3, A5, E1, E2.
ExampleHits ==
    <<Coordinate(1, 1), Coordinate(1, 2), Coordinate(2, 2), Coordinate(1, 3),
      Coordinate(1, 5), Coordinate(5, 1), Coordinate(5, 2)>>

\* The sub-lists of a list, each in the order of the list.
RECURSIVE subLists(_)
subLists(list) ==
    IF list = <<>> THEN {<<>>}
    ELSE LET rest == subLists(Tail(list))
         IN  rest \cup {<<Head(list)>> \o r : r \in rest}

ExampleCollections == subLists(ExampleHits)

ExampleAlignments == AlignmentsOf(ExampleCollections)

\* The coordinates of the list are all in one column or all in one row.
collinear(list) ==
    \/ \A i, j \in 1..Len(list) : list[i].columnIndex = list[j].columnIndex
    \/ \A i, j \in 1..Len(list) : list[i].rowIndex = list[j].rowIndex

\* Alignments a caller can build that findAlignments never returns: two or
\* three coordinates of the grid that share neither a column nor a row, under
\* either direction.
NonAlignedAlignments ==
    {[direction |-> d, coordinates |-> cs] :
        d \in {HORIZONTAL, VERTICAL},
        cs \in {l \in {<<a, b>> : a, b \in GridCoordinates}
                        \cup {<<a, b, c>> : a, b, c \in GridCoordinates} :
                    ~ collinear(l)}}

\* The step sizes findNextIndexByStep is called with: -2, -1.5, -1, ..., up
\* to past the largest axis.
StepSizes == {Number(whole, half) : whole \in (-2)..MaxShipSize, half \in BOOLEAN}

\* The adjacency functions findNextIndexByStep is called with.
AdjacentIndexFinders ==
    {findPreviousColumnIndex, findNextColumnIndex, findPreviousRowIndex, findNextRowIndex}

\* The indices a LoopableIndices is built over, and the lists of them.
Indices == 1..MaxIndices

IndexLists == UNION {[1..n -> Indices] : n \in 0..MaxIndices}

(***************************************************************************)
(* The state machine.                                                      *)
(***************************************************************************)
NoArgs == <<>>
NoResult == <<>>

\* The value of `loopable` where no LoopableIndices has been built.
NoLoopableIndices ==
    [indices |-> <<>>, initialIndex |-> Undefined, nextIndexIndex |-> UndefinedIndexIndex]

Init ==
    /\ numCols \in 1..MaxCols
    /\ numRows \in 1..MaxRows
    /\ reference \in {Coordinate(c, r) : c \in 1..numCols, r \in 1..numRows}
    /\ cachedOrigin = UndefinedCoordinate
    /\ op = "idle"
    /\ args = NoArgs
    /\ result = NoResult
    /\ raised = FALSE
    /\ loopable = NoLoopableIndices
    /\ calls = 0

GetSurroundingCoordinates ==
    /\ op = "idle"
    /\ \E target \in GridCoordinates :
        /\ args' = <<target>>
        /\ result' = getSurroundingCoordinates(target)
    /\ op' = "getSurroundingCoordinates"
    /\ raised' = FALSE
    /\ UNCHANGED <<loopable, calls, numCols, numRows, reference, cachedOrigin>>

CalculateDistance ==
    /\ op = "idle"
    /\ \E first \in GridCoordinates, second \in GridCoordinates :
        /\ args' = <<first, second>>
        /\ result' = calculateDistance(first, second)
    /\ op' = "calculateDistance"
    /\ raised' = FALSE
    /\ UNCHANGED <<loopable, calls, numCols, numRows, reference, cachedOrigin>>

FindAlignmentsOf(coordinates, maxDistance) ==
    /\ op = "idle"
    /\ args' = <<coordinates, maxDistance>>
    /\ result' = findAlignments(coordinates, maxDistance)
    /\ op' = "findAlignments"
    /\ raised' = FALSE
    /\ UNCHANGED <<loopable, calls, numCols, numRows, reference, cachedOrigin>>

FindAlignmentGapsOf(alignment) ==
    /\ op = "idle"
    /\ args' = <<alignment>>
    /\ raised' = findAlignmentGapsThrows(alignment)
    /\ result' = IF raised' THEN NoResult ELSE findAlignmentGaps(alignment)
    /\ op' = "findAlignmentGaps"
    /\ UNCHANGED <<loopable, calls, numCols, numRows, reference, cachedOrigin>>

FindNextExtremumsOf(alignment) ==
    /\ op = "idle"
    /\ args' = <<alignment>>
    /\ raised' = findNextExtremumsThrows(alignment)
    /\ result' = IF raised' THEN NoResult ELSE findNextExtremums(alignment)
    /\ op' = "findNextExtremums"
    /\ UNCHANGED <<loopable, calls, numCols, numRows, reference, cachedOrigin>>

\* Every collection is tried on the small grids only.
SmallGrid == numCols <= MaxCols /\ numRows <= MaxRows

\* The example hits are tried on the grids that hold them.
HitsOnGrid == Range(ExampleHits) \subseteq GridCoordinates

FindAlignments ==
    /\ op = "idle"
    /\ SmallGrid
    /\ \E coordinates \in CoordinateCollections, maxDistance \in Distances :
            FindAlignmentsOf(coordinates, maxDistance)

FindAlignmentGaps ==
    /\ op = "idle"
    /\ SmallGrid
    /\ \E alignment \in Alignments : FindAlignmentGapsOf(alignment)

FindNextExtremums ==
    /\ op = "idle"
    /\ SmallGrid
    /\ \E alignment \in Alignments : FindNextExtremumsOf(alignment)

FindAlignmentsOfHits ==
    /\ op = "idle"
    /\ HitsOnGrid
    /\ \E coordinates \in ExampleCollections, maxDistance \in Distances :
            FindAlignmentsOf(coordinates, maxDistance)

FindAlignmentGapsOfHits ==
    /\ op = "idle"
    /\ HitsOnGrid
    /\ \E alignment \in ExampleAlignments : FindAlignmentGapsOf(alignment)

FindNextExtremumsOfHits ==
    /\ op = "idle"
    /\ HitsOnGrid
    /\ \E alignment \in ExampleAlignments : FindNextExtremumsOf(alignment)

FindAlignmentGapsOfNonAligned ==
    /\ op = "idle"
    /\ \E alignment \in NonAlignedAlignments : FindAlignmentGapsOf(alignment)

FindNextExtremumsOfNonAligned ==
    /\ op = "idle"
    /\ \E alignment \in NonAlignedAlignments : FindNextExtremumsOf(alignment)

GetGridOrigin ==
    /\ op = "idle"
    /\ args' = NoArgs
    /\ result' = getGridOrigin
    /\ cachedOrigin' = getGridOrigin
    /\ op' = "getGridOrigin"
    /\ raised' = FALSE
    /\ UNCHANGED <<loopable, calls, numCols, numRows, reference>>

FindStartingCoordinates ==
    /\ op = "idle"
    /\ \E minShipSize \in ShipSizes :
        /\ args' = <<minShipSize>>
        /\ result' = findStartingCoordinates(minShipSize)
    /\ cachedOrigin' = getGridOrigin
    /\ op' = "findStartingCoordinates"
    /\ raised' = FALSE
    /\ UNCHANGED <<loopable, calls, numCols, numRows, reference>>

TraverseGrid ==
    /\ op = "idle"
    /\ \E minShipSize \in ShipSizes :
        /\ args' = <<minShipSize>>
        /\ result' = traverseGrid(minShipSize)
    /\ cachedOrigin' = getGridOrigin
    /\ op' = "traverseGrid"
    /\ raised' = FALSE
    /\ UNCHANGED <<loopable, calls, numCols, numRows, reference>>

FindNextIndexByStep ==
    /\ op = "idle"
    /\ \E getNextIndex \in AdjacentIndexFinders :
        \E initialValue \in DOMAIN getNextIndex, stepSize \in StepSizes :
            /\ args' = <<getNextIndex, initialValue, stepSize>>
            /\ raised' = findNextIndexByStepThrows(stepSize)
            /\ result' = IF raised' THEN NoResult
                         ELSE findNextIndexByStep(getNextIndex, initialValue, stepSize.whole)
    /\ op' = "findNextIndexByStep"
    /\ UNCHANGED <<loopable, calls, numCols, numRows, reference, cachedOrigin>>

NewLoopableIndices ==
    /\ op = "idle"
    /\ loopable = NoLoopableIndices
    /\ \E indices \in IndexLists, initialIndex \in Indices :
        /\ args' = <<indices, initialIndex>>
        /\ raised' = LoopableIndicesThrows(indices, initialIndex)
        /\ loopable' = IF raised' THEN loopable ELSE LoopableIndices(indices, initialIndex)
    /\ result' = NoResult
    /\ op' = "new LoopableIndices"
    /\ UNCHANGED <<calls, numCols, numRows, reference, cachedOrigin>>

GetNextIndex ==
    /\ op = "idle"
    /\ loopable # NoLoopableIndices
    /\ calls < MaxCalls
    /\ LET call == loopableGetNextIndex(loopable.indices, loopable.initialIndex,
                                        loopable.nextIndexIndex)
       IN  /\ result' = call.index
           /\ loopable' = [loopable EXCEPT !.nextIndexIndex = call.nextIndexIndex]
    /\ calls' = calls + 1
    /\ args' = NoArgs
    /\ raised' = FALSE
    /\ op' = "getNextIndex"
    /\ UNCHANGED <<numCols, numRows, reference, cachedOrigin>>

\* The caller takes the result and is free to call again.
Return ==
    /\ op # "idle"
    /\ op' = "idle"
    /\ raised' = FALSE
    /\ args' = NoArgs
    /\ result' = NoResult
    /\ UNCHANGED <<loopable, calls, numCols, numRows, reference, cachedOrigin>>

\* The navigator on every small grid, built from any reference: adjacency,
\* distance, origin and traversal.
Next ==
    \/ GetSurroundingCoordinates
    \/ CalculateDistance
    \/ GetGridOrigin
    \/ FindStartingCoordinates
    \/ TraverseGrid
    \/ Return

Spec == Init /\ [][Next]_vars

\* The alignment operations, on every small grid with every collection and
\* on the example grids with the example hits.  They read neither the
\* reference nor the cached origin, so the reference is the last coordinate.
InitAlign ==
    /\ \E grid \in ((1..MaxCols) \X (1..MaxRows)) \cup ExampleGrids :
        /\ numCols = grid[1]
        /\ numRows = grid[2]
    /\ reference = Coordinate(numCols, numRows)
    /\ cachedOrigin = UndefinedCoordinate
    /\ op = "idle"
    /\ args = NoArgs
    /\ result = NoResult
    /\ raised = FALSE
    /\ loopable = NoLoopableIndices
    /\ calls = 0

NextAlign ==
    \/ FindAlignments
    \/ FindAlignmentGaps
    \/ FindNextExtremums
    \/ FindAlignmentsOfHits
    \/ FindAlignmentGapsOfHits
    \/ FindNextExtremumsOfHits
    \/ Return

SpecAlign == InitAlign /\ [][NextAlign]_vars

\* The gap and extremum operations given alignments whose coordinates are
\* not on one line, on every small grid.
InitNonAligned ==
    /\ numCols \in 1..MaxCols
    /\ numRows \in 1..MaxRows
    /\ reference = Coordinate(numCols, numRows)
    /\ cachedOrigin = UndefinedCoordinate
    /\ op = "idle"
    /\ args = NoArgs
    /\ result = NoResult
    /\ raised = FALSE
    /\ loopable = NoLoopableIndices
    /\ calls = 0

NextNonAligned ==
    \/ FindAlignmentGapsOfNonAligned
    \/ FindNextExtremumsOfNonAligned
    \/ Return

SpecNonAligned == InitNonAligned /\ [][NextNonAligned]_vars

\* findNextIndexByStep over the adjacency functions of every small grid.
InitStep ==
    /\ numCols \in 1..MaxCols
    /\ numRows \in 1..MaxRows
    /\ reference = Coordinate(numCols, numRows)
    /\ cachedOrigin = UndefinedCoordinate
    /\ op = "idle"
    /\ args = NoArgs
    /\ result = NoResult
    /\ raised = FALSE
    /\ loopable = NoLoopableIndices
    /\ calls = 0

NextStep ==
    \/ FindNextIndexByStep
    \/ Return

SpecStep == InitStep /\ [][NextStep]_vars

\* A LoopableIndices, from its construction through its calls.
InitLoopable ==
    /\ numCols = MaxCols
    /\ numRows = MaxRows
    /\ reference = Coordinate(numCols, numRows)
    /\ cachedOrigin = UndefinedCoordinate
    /\ op = "idle"
    /\ args = NoArgs
    /\ result = NoResult
    /\ raised = FALSE
    /\ loopable = NoLoopableIndices
    /\ calls = 0

NextLoopable ==
    \/ NewLoopableIndices
    \/ GetNextIndex
    \/ Return

SpecLoopable == InitLoopable /\ [][NextLoopable]_vars

\* The whole navigator on the grids of the documented examples.
InitExample ==
    /\ \E grid \in ExampleGrids :
        /\ numCols = grid[1]
        /\ numRows = grid[2]
    /\ reference = Coordinate(numCols, numRows)
    /\ cachedOrigin = UndefinedCoordinate
    /\ op = "idle"
    /\ args = NoArgs
    /\ result = NoResult
    /\ raised = FALSE
    /\ loopable = NoLoopableIndices
    /\ calls = 0

NextExample ==
    \/ GetSurroundingCoordinates
    \/ CalculateDistance
    \/ FindAlignmentsOfHits
    \/ FindAlignmentGapsOfHits
    \/ FindNextExtremumsOfHits
    \/ GetGridOrigin
    \/ FindStartingCoordinates
    \/ TraverseGrid
    \/ Return

SpecExample == InitExample /\ [][NextExample]_vars

(***************************************************************************)
(* Properties.                                                             *)
(***************************************************************************)
\* Two coordinates share a column or a row.
Aligned(a, b) == a.columnIndex = b.columnIndex \/ a.rowIndex = b.rowIndex

MinOf(a, b) == IF a <= b THEN a ELSE b

\* The coordinates of the lists of a list of lists.
Visited(lists) == UNION {Range(lists[i]) : i \in 1..Len(lists)}

\* The axis-aligned runs of `size` consecutive cells that lie inside the grid.
Runs(size) ==
    {{Coordinate(c + k, r) : k \in 0..(size - 1)} :
        c \in 1..(numCols - size + 1), r \in RowIndices}
    \cup {{Coordinate(c, r + k) : k \in 0..(size - 1)} :
        c \in ColumnIndices, r \in 1..(numRows - size + 1)}

\* C1: every axis-aligned run of minSize consecutive cells of the grid has a
\* cell in some sequence returned by traverseGrid(minSize).
C1_TraverseGridMeetsEveryRun ==
    op = "traverseGrid" =>
        \A run \in Runs(args[1]) : run \cap Visited(result) # {}

C1_Witness ==
    /\ op = "traverseGrid"
    /\ args[1] = 2
    /\ numCols = 3
    /\ numRows = 3
    /\ Cardinality(Runs(args[1])) = 12
    /\ Len(result) = 4

\* C3: for two coordinates sharing a column or a row, calculateDistance
\* succeeds in both argument orders with the same value, the number of next
\* steps from the smaller to the larger index of the shared axis (0 for a
\* coordinate and itself).
C3_DistanceIsSymmetricStepCount ==
    (op = "calculateDistance" /\ Aligned(args[1], args[2])) =>
        LET a == args[1]
            b == args[2]
            vertical == a.columnIndex = b.columnIndex
            lo == IF vertical THEN MinOf(a.rowIndex, b.rowIndex)
                  ELSE MinOf(a.columnIndex, b.columnIndex)
            hi == IF vertical THEN MaxOf(a.rowIndex, b.rowIndex)
                  ELSE MaxOf(a.columnIndex, b.columnIndex)
            next == IF vertical THEN findNextRowIndex ELSE findNextColumnIndex
        IN  /\ result.isRight
            /\ result.value \in Nat
            /\ stepReduce(next, lo, result.value) = hi
            /\ calculateDistance(b, a) = result
            /\ (a = b => result.value = 0)

C3_Witness ==
    /\ op = "calculateDistance"
    /\ args = <<Coordinate(1, 3), Coordinate(1, 1)>>
    /\ result = Right(2)

\* C4: for two coordinates sharing neither column nor row, calculateDistance
\* returns the NonAlignedCoordinates failure as a left value, never a number,
\* in both argument orders.
C4_NonAlignedIsLeftFailure ==
    (op = "calculateDistance" /\ ~ Aligned(args[1], args[2])) =>
        /\ ~ result.isRight
        /\ result.value = NonAlignedCoordinates
        /\ calculateDistance(args[2], args[1]) = result

C4_Witness ==
    /\ op = "calculateDistance"
    /\ args = <<Coordinate(1, 1), Coordinate(2, 2)>>
    /\ result = Left(NonAlignedCoordinates)

\* The target has no previous or no next index on at least one axis.
OnBoundary(t) ==
    \/ findPreviousColumnIndex[t.columnIndex] = Undefined
    \/ findNextColumnIndex[t.columnIndex] = Undefined
    \/ findPreviousRowIndex[t.rowIndex] = Undefined
    \/ findNextRowIndex[t.rowIndex] = Undefined

\* C6: getSurroundingCoordinates returns at most 4 coordinates, pairwise
\* distinct, each at distance exactly 1 from the target, and fewer than 4
\* exactly when the target lies on a grid boundary.
C6_SurroundingCoordinates ==
    op = "getSurroundingCoordinates" =>
        /\ Len(result) <= 4
        /\ \A i, j \in 1..Len(result) : i # j => result[i] # result[j]
        /\ \A i \in 1..Len(result) : calculateDistance(result[i], args[1]) = Right(1)
        /\ (Len(result) < 4 <=> OnBoundary(args[1]))

C6_Witness ==
    /\ op = "getSurroundingCoordinates"
    /\ numCols = 3
    /\ numRows = 3
    /\ args = <<Coordinate(2, 2)>>
    /\ Len(result) = 4

\* C10: traverseGrid(1) returns one diagonal and its mirror; each of the two
\* sequences lists every cell of the grid exactly once.
C10_TraverseGridOfOne ==
    (op = "traverseGrid" /\ args[1] = 1) =>
        /\ Len(result) = 2
        /\ \A i \in 1..2 :
            /\ Len(result[i]) = numCols * numRows
            /\ Range(result[i]) = GridCoordinates
        /\ \A k \in 1..Len(result[1]) :
            result[2][k] = Coordinate(result[1][k].columnIndex,
                                      numRows + 1 - result[1][k].rowIndex)

C10_Witness ==
    /\ op = "traverseGrid"
    /\ args[1] = 1
    /\ numCols = 3
    /\ numRows = 3
    /\ Len(result) = 2
    /\ result[1] # result[2]

\* The number of cells between two coordinates that share an axis.
AxisDistance(a, b) ==
    (MaxOf(a.columnIndex, b.columnIndex) - MinOf(a.columnIndex, b.columnIndex))
    + (MaxOf(a.rowIndex, b.rowIndex) - MinOf(a.rowIndex, b.rowIndex))

\* Some alignment of the list holds both coordinates.
TogetherIn(alignments, a, b) ==
    \E k \in 1..Len(alignments) :
        {a, b} \subseteq Range(alignments[k].coordinates)

\* The members of the alignment share the axis its direction names.
DirectionMatches(alignment) ==
    /\ alignment.direction \in {HORIZONTAL, VERTICAL}
    /\ alignment.direction = HORIZONTAL =>
        \A i, j \in 1..Len(alignment.coordinates) :
            alignment.coordinates[i].rowIndex = alignment.coordinates[j].rowIndex
    /\ alignment.direction = VERTICAL =>
        \A i, j \in 1..Len(alignment.coordinates) :
            alignment.coordinates[i].columnIndex = alignment.coordinates[j].columnIndex

\* C2: for every input collection, also one listing a coordinate twice, each
\* alignment findAlignments returns has at least 2 coordinates, its direction
\* is the axis its members share, and no two of its members are equal.
C2_AlignmentsAreWellFormed ==
    op = "findAlignments" =>
        \A k \in 1..Len(result) :
            /\ Len(result[k].coordinates) >= 2
            /\ DirectionMatches(result[k])
            /\ \A i, j \in 1..Len(result[k].coordinates) :
                i # j => result[k].coordinates[i] # result[k].coordinates[j]

\* The collection A1, A2, A3, A5, E1 of the documented example.
ExampleCollection ==
    <<Coordinate(1, 1), Coordinate(1, 2), Coordinate(1, 3), Coordinate(1, 5),
      Coordinate(5, 1)>>

\* C5: the distance bound of findAlignments is inclusive: two aligned input
\* coordinates exactly maxDistance apart are returned together in an
\* alignment, two that are maxDistance + 1 apart are in no alignment together;
\* on the 5x5 grid findAlignments([A1, A2, A3, A5, E1], 4) is HORIZONTAL
\* [A1, E1] followed by VERTICAL [A1, A2, A3, A5].
C5_DistanceBoundIsInclusive ==
    op = "findAlignments" =>
        /\ \A i, j \in 1..Len(args[1]) :
            (args[1][i] # args[1][j] /\ Aligned(args[1][i], args[1][j])) =>
                /\ AxisDistance(args[1][i], args[1][j]) = args[2]
                    => TogetherIn(result, args[1][i], args[1][j])
                /\ AxisDistance(args[1][i], args[1][j]) = args[2] + 1
                    => ~ TogetherIn(result, args[1][i], args[1][j])
        /\ (numCols = 5 /\ numRows = 5 /\ args = <<ExampleCollection, 4>>) =>
            result = <<[direction |-> HORIZONTAL,
                        coordinates |-> <<Coordinate(1, 1), Coordinate(5, 1)>>],
                       [direction |-> VERTICAL,
                        coordinates |-> <<Coordinate(1, 1), Coordinate(1, 2),
                                          Coordinate(1, 3), Coordinate(1, 5)>>]>>

C5_Witness ==
    /\ op = "findAlignments"
    /\ numCols = 5
    /\ numRows = 5
    /\ args = <<ExampleCollection, 4>>
    /\ Len(result) = 2
    /\ TogetherIn(result, Coordinate(1, 1), Coordinate(5, 1))

\* C7 (as amended): the neighbours are returned in the order of the row-major
\* sorter; on the 5x5 grid getSurroundingCoordinates(C3) is [C2, B3, D3, C4].
C7_SurroundingOfC3RowMajor ==
    op = "getSurroundingCoordinates" =>
        /\ \A i, j \in 1..Len(result) :
            i < j =>
                \/ result[i].rowIndex < result[j].rowIndex
                \/ /\ result[i].rowIndex = result[j].rowIndex
                   /\ result[i].columnIndex < result[j].columnIndex
        /\ (numCols = 5 /\ numRows = 5 /\ args = <<Coordinate(3, 3)>>) =>
            result = <<Coordinate(3, 2), Coordinate(2, 3), Coordinate(4, 3), Coordinate(3, 4)>>

C7_Witness ==
    /\ op = "getSurroundingCoordinates"
    /\ numCols = 5
    /\ numRows = 5
    /\ args = <<Coordinate(3, 3)>>
    /\ Len(result) = 4

\* C7 (as claimed): on the 5x5 grid getSurroundingCoordinates(C3) is
\* [B3, D3, C2, C4].
C7_SurroundingOfC3AsClaimed ==
    (op = "getSurroundingCoordinates" /\ numCols = 5 /\ numRows = 5
        /\ args = <<Coordinate(3, 3)>>) =>
        result = <<Coordinate(2, 3), Coordinate(4, 3), Coordinate(3, 2), Coordinate(3, 4)>>

\* The index of a coordinate along the axis of a direction.
AxisIndex(direction, c) == IF direction = HORIZONTAL THEN c.columnIndex ELSE c.rowIndex

\* The coordinates of the alignment's line strictly between its smallest and
\* its largest member that are not members.
Between(alignment) ==
    LET members == Range(alignment.coordinates)
        first == CHOOSE c \in members : \A d \in members :
                     AxisIndex(alignment.direction, c) <= AxisIndex(alignment.direction, d)
        last == CHOOSE c \in members : \A d \in members :
                    AxisIndex(alignment.direction, c) >= AxisIndex(alignment.direction, d)
    IN  {c \in GridCoordinates :
            /\ c \notin members
            /\ Aligned(c, first) /\ Aligned(c, last)
            /\ AxisIndex(alignment.direction, first) < AxisIndex(alignment.direction, c)
            /\ AxisIndex(alignment.direction, c) < AxisIndex(alignment.direction, last)
            /\ alignment.direction = HORIZONTAL => c.rowIndex = first.rowIndex
            /\ alignment.direction = VERTICAL => c.columnIndex = first.columnIndex}

\* C8: findAlignmentGaps returns, in axis order, exactly the coordinates
\* strictly between the first and the last coordinate of the alignment that
\* are not members of it ((A1, A3) gives A2, (B2, E2) gives C2, D2); the
\* alignment merged with its gaps has no gaps; an alignment of at most one
\* coordinate has none.
C8_GapsFillTheAlignment ==
    op = "findAlignmentGaps" =>
        LET alignment == args[1]
        IN  /\ Len(alignment.coordinates) <= 1 => result = <<>>
            /\ Len(alignment.coordinates) > 1 =>
                /\ Range(result) = Between(alignment)
                /\ \A i, j \in 1..Len(result) :
                    i < j => AxisIndex(alignment.direction, result[i])
                                < AxisIndex(alignment.direction, result[j])
                /\ findAlignmentGaps([direction |-> alignment.direction,
                                      coordinates |-> alignment.coordinates \o result]) = <<>>
            /\ alignment = [direction |-> VERTICAL,
                            coordinates |-> <<Coordinate(1, 1), Coordinate(1, 3)>>]
                => result = <<Coordinate(1, 2)>>
            /\ alignment = [direction |-> HORIZONTAL,
                            coordinates |-> <<Coordinate(2, 2), Coordinate(5, 2)>>]
                => result = <<Coordinate(3, 2), Coordinate(4, 2)>>

C8_Witness ==
    /\ op = "findAlignmentGaps"
    /\ args = <<[direction |-> HORIZONTAL,
                 coordinates |-> <<Coordinate(2, 2), Coordinate(5, 2)>>]>>
    /\ result = <<Coordinate(3, 2), Coordinate(4, 2)>>

\* The coordinate one step before the smallest and the one one step after
\* the largest member of the alignment, those off the grid left out.
Extremums(alignment) ==
    LET members == Range(alignment.coordinates)
        first == CHOOSE c \in members : \A d \in members :
                     AxisIndex(alignment.direction, c) <= AxisIndex(alignment.direction, d)
        last == CHOOSE c \in members : \A d \in members :
                    AxisIndex(alignment.direction, c) >= AxisIndex(alignment.direction, d)
        previous == IF alignment.direction = HORIZONTAL
                    THEN Coordinate(first.columnIndex - 1, first.rowIndex)
                    ELSE Coordinate(first.columnIndex, first.rowIndex - 1)
        next == IF alignment.direction = HORIZONTAL
                THEN Coordinate(last.columnIndex + 1, last.rowIndex)
                ELSE Coordinate(last.columnIndex, last.rowIndex + 1)
    IN  SelectSeq(<<previous, next>>, LAMBDA c : c \in GridCoordinates)

\* C9: for a non-empty alignment findNextExtremums returns the coordinate one
\* previous step before its smallest coordinate, then the coordinate one next
\* step after its largest, leaving out the one that falls off the grid
\* (VERTICAL (A1, A3) gives [A4], HORIZONTAL (B2, E2) gives [A2, F2] where the
\* grid has a column F); no returned coordinate is a member of the alignment.
C9_NextExtremums ==
    (op = "findNextExtremums" /\ Len(args[1].coordinates) > 0) =>
        LET alignment == args[1]
        IN  /\ result = Extremums(alignment)
            /\ \A i \in 1..Len(result) : result[i] \notin Range(alignment.coordinates)
            /\ (numRows >= 4
                /\ alignment = [direction |-> VERTICAL,
                                coordinates |-> <<Coordinate(1, 1), Coordinate(1, 3)>>])
                => result = <<Coordinate(1, 4)>>
            /\ (numCols >= 6
                /\ alignment = [direction |-> HORIZONTAL,
                                coordinates |-> <<Coordinate(2, 2), Coordinate(5, 2)>>])
                => result = <<Coordinate(1, 2), Coordinate(6, 2)>>

C9_Witness ==
    /\ op = "findNextExtremums"
    /\ numCols = 10
    /\ args = <<[direction |-> HORIZONTAL,
                 coordinates |-> <<Coordinate(2, 2), Coordinate(5, 2)>>]>>
    /\ result = <<Coordinate(1, 2), Coordinate(6, 2)>>

\* C11: on the 5x5 grid, for the collection A1, A2, A3, A5, E1 and a maximum
\* distance below 4, findAlignments returns no alignment of A1 with E1 and
\* returns the alignment VERTICAL (A1, A2, A3, A5): A5 stays with A1, A2 and
\* A3 because it is within the maximum distance of its neighbour A3.
C11_A5KeptWithItsNeighbours ==
    (op = "findAlignments" /\ numCols = 5 /\ numRows = 5
        /\ args[1] = ExampleCollection /\ args[2] < 4) =>
        /\ ~ TogetherIn(result, Coordinate(1, 1), Coordinate(5, 1))
        /\ \E k \in 1..Len(result) :
            result[k] = [direction |-> VERTICAL,
                         coordinates |-> <<Coordinate(1, 1), Coordinate(1, 2),
                                           Coordinate(1, 3), Coordinate(1, 5)>>]

\* What findAlignments returns for that call: A5, 4 cells from the reference
\* A1, is left out of the alignment of A1 and joins the one of A2.
C11_Returned ==
    (op = "findAlignments" /\ numCols = 5 /\ numRows = 5
        /\ args[1] = ExampleCollection /\ args[2] = 3) =>
        result = <<[direction |-> VERTICAL,
                    coordinates |-> <<Coordinate(1, 1), Coordinate(1, 2), Coordinate(1, 3)>>],
                   [direction |-> VERTICAL,
                    coordinates |-> <<Coordinate(1, 2), Coordinate(1, 3), Coordinate(1, 5)>>]>>

\* C12: findAlignmentGaps and findNextExtremums, given an alignment whose
\* coordinates share neither a column nor a row, raise and return no
\* coordinate list.
C12_NonAlignedAlignmentRaises ==
    (op \in {"findAlignmentGaps", "findNextExtremums"}
        /\ ~ collinear(args[1].coordinates)) =>
        /\ raised
        /\ result = NoResult

\* C12 (as amended): given such an alignment the two operations do not
\* raise; they return a list of coordinates of the grid, all in the row of
\* the first coordinate of the alignment when its direction is HORIZONTAL, in
\* its column when it is VERTICAL.
C12_NonAlignedAlignmentReturnsList ==
    (op \in {"findAlignmentGaps", "findNextExtremums"}
        /\ ~ collinear(args[1].coordinates)) =>
        /\ ~ raised
        /\ \A i \in 1..Len(result) :
            /\ result[i] \in GridCoordinates
            /\ args[1].direction = HORIZONTAL =>
                result[i].rowIndex = args[1].coordinates[1].rowIndex
            /\ args[1].direction = VERTICAL =>
                result[i].columnIndex = args[1].coordinates[1].columnIndex

\* findNextExtremums of HORIZONTAL (A1, B2) on a grid with three columns
\* returns C1.
C12_Witness ==
    /\ op = "findNextExtremums"
    /\ numCols = 3
    /\ args = <<[direction |-> HORIZONTAL,
                 coordinates |-> <<Coordinate(1, 1), Coordinate(2, 2)>>]>>
    /\ ~ raised
    /\ result = <<Coordinate(3, 1)>>

\* The list names no coordinate twice.
distinct(list) == \A i, j \in 1..Len(list) : i # j => list[i] # list[j]

\* C13: for every collection of distinct coordinates and every maxDistance,
\* findAlignments returns no alignment whose coordinates are all contained
\* in another returned alignment: comparing each alignment with the one just
\* before it removes every redundant alignment.
C13_NoRedundantAlignment ==
    (op = "findAlignments" /\ distinct(args[1])) =>
        \A i, j \in 1..Len(result) :
            i # j => ~ (Range(result[i].coordinates) \subseteq Range(result[j].coordinates))

\* The redundant alignment findAlignments returns for A1, B1, C1, A2:
\* HORIZONTAL (B1, C1) follows VERTICAL (A1, A2), which does not contain it,
\* and is kept next to HORIZONTAL (A1, B1, C1).
C13_Returned ==
    (op = "findAlignments" /\ numCols = 3 /\ numRows = 2 /\ args[2] = 2
        /\ Range(args[1]) = {Coordinate(1, 1), Coordinate(2, 1), Coordinate(3, 1),
                             Coordinate(1, 2)}
        /\ distinct(args[1])) =>
        result = <<[direction |-> HORIZONTAL,
                    coordinates |-> <<Coordinate(1, 1), Coordinate(2, 1), Coordinate(3, 1)>>],
                   [direction |-> VERTICAL,
                    coordinates |-> <<Coordinate(1, 1), Coordinate(1, 2)>>],
                   [direction |-> HORIZONTAL,
                    coordinates |-> <<Coordinate(2, 1), Coordinate(3, 1)>>]>>

\* The direction of the axis two distinct aligned coordinates share.
SharedAxis(a, b) == IF a.rowIndex = b.rowIndex THEN HORIZONTAL ELSE VERTICAL

\* C14: findAlignments loses no aligned pair: for every collection of
\* distinct coordinates and every maxDistance, two input coordinates that
\* share an axis and are at most maxDistance apart are together in a returned
\* alignment whose direction is the axis they share.
C14_NoAlignedPairLost ==
    (op = "findAlignments" /\ distinct(args[1])) =>
        \A i, j \in 1..Len(args[1]) :
            LET a == args[1][i]
                b == args[1][j]
            IN  (a # b /\ Aligned(a, b) /\ calculateDistance(a, b).isRight
                    /\ calculateDistance(a, b).value <= args[2]) =>
                    \E k \in 1..Len(result) :
                        /\ {a, b} \subseteq Range(result[k].coordinates)
                        /\ result[k].direction = SharedAxis(a, b)

\* The redundancy filter has removed VERTICAL (A3, A5), whose pair is still
\* returned in VERTICAL (A2, A3, A5).
C14_Witness ==
    /\ op = "findAlignments"
    /\ numCols = 5
    /\ numRows = 5
    /\ args = <<ExampleCollection, 3>>
    /\ Len(groupedAlignments(args[1], args[2])) = 3
    /\ Len(result) = 2
    /\ TogetherIn(result, Coordinate(1, 3), Coordinate(1, 5))

\* The row indices of the cells of a sequence that lie in one column, in the
\* order of the sequence.
RowsOfColumn(sequence, columnIndex) ==
    LET cells == SelectSeq(sequence, LAMBDA c : c.columnIndex = columnIndex)
    IN  [k \in 1..Len(cells) |-> cells[k].rowIndex]

\* The sequence has a cell in every axis-aligned run of `size` cells.
MeetsEveryRun(sequence, size) == \A run \in Runs(size) : run \cap Range(sequence) # {}

\* C15: each single sequence traverseGrid(minSize) returns, diagonal or
\* mirror, visits the cells of each column in increasing row order exactly
\* minSize next steps apart, holds no coordinate twice, and has a cell in
\* every axis-aligned run of minSize consecutive cells of the grid.
C15_EachSequenceCoversInIncreasingRows ==
    op = "traverseGrid" =>
        \A s \in 1..Len(result) :
            /\ \A c \in ColumnIndices :
                LET rows == RowsOfColumn(result[s], c)
                IN  \A k \in 1..(Len(rows) - 1) :
                        /\ rows[k] < rows[k + 1]
                        /\ rows[k + 1] = stepReduce(findNextRowIndex, rows[k], args[1])
            /\ distinct(result[s])
            /\ MeetsEveryRun(result[s], args[1])

\* C15 (as amended): each single sequence holds no coordinate twice and has
\* a cell in every axis-aligned run of minSize cells; a diagonal (odd place
\* of the result) visits the cells of each column in increasing row order,
\* minSize next steps apart, and a mirror (even place) in decreasing row
\* order, minSize previous steps apart.
C15_EachSequenceCovers ==
    op = "traverseGrid" =>
        \A s \in 1..Len(result) :
            /\ \A c \in ColumnIndices :
                LET rows == RowsOfColumn(result[s], c)
                IN  \A k \in 1..(Len(rows) - 1) :
                        IF s % 2 = 1
                        THEN /\ rows[k] < rows[k + 1]
                             /\ rows[k + 1] = stepReduce(findNextRowIndex, rows[k], args[1])
                        ELSE /\ rows[k] > rows[k + 1]
                             /\ rows[k + 1] = stepReduce(findPreviousRowIndex, rows[k], args[1])
            /\ distinct(result[s])
            /\ MeetsEveryRun(result[s], args[1])

\* On the 3x3 grid with minSize 2, where 3 is not a multiple of 2, the first
\* mirror visits column A at row 3, then at row 1.
C15_Witness ==
    /\ op = "traverseGrid"
    /\ numCols = 3
    /\ numRows = 3
    /\ args[1] = 2
    /\ Len(result) = 4
    /\ RowsOfColumn(result[1], 1) = <<1, 3>>
    /\ RowsOfColumn(result[2], 1) = <<3, 1>>
    /\ Cardinality(Runs(2)) = 12

\* The row at the place, counted from the last row, that `rowIndex` has
\* counted from the first row.
ReflectedRow(rowIndex) == numRows + 1 - rowIndex

\* C16: on a grid with at least minSize rows, traverseGrid(minSize) returns
\* exactly 2 x minSize non-empty sequences, diagonal 0, its mirror, diagonal
\* 1, its mirror, ...: diagonal i starts in the first column at the row i
\* next steps after the first, and the sequence after each diagonal has the
\* same length and, element by element, the same column and the reflected
\* row; coordinates that several sequences hold are not removed.
C16_DiagonalsAlternateWithMirrors ==
    (op = "traverseGrid" /\ numRows >= args[1]) =>
        /\ Len(result) = 2 * args[1]
        /\ \A s \in 1..Len(result) : Len(result[s]) > 0
        /\ \A i \in 0..(args[1] - 1) :
            LET diagonal == result[2 * i + 1]
                mirrored == result[2 * i + 2]
            IN  /\ diagonal[1] = Coordinate(1, i + 1)
                /\ Len(mirrored) = Len(diagonal)
                /\ \A k \in 1..Len(diagonal) :
                    /\ mirrored[k].columnIndex = diagonal[k].columnIndex
                    /\ mirrored[k].rowIndex = ReflectedRow(diagonal[k].rowIndex)

\* On the 3x3 grid with minSize 2 the four sequences are there, the second
\* differs from the first and holds the same coordinates.
C16_Witness ==
    /\ op = "traverseGrid"
    /\ numCols = 3
    /\ numRows = 3
    /\ args[1] = 2
    /\ Len(result) = 4
    /\ result[2] # result[1]
    /\ Range(result[2]) = Range(result[1])
    /\ result[3][1] = Coordinate(1, 2)

\* The position, from 0, of a member of a list of distinct indices.
PositionIn(indices, index) == CHOOSE p \in 0..(Len(indices) - 1) : indices[p + 1] = index

\* C17: the construction of a LoopableIndices raises exactly when the
\* initial index is not a member of the indices; built over n distinct
\* indices S with the initial index at position p, its k-th call of
\* getNextIndex (k = 0, 1, 2, ...) returns S[(p + k) mod n]: the initial index
\* first, then each following element, the first element after the last.
C17_GetNextIndexLoops ==
    /\ op = "new LoopableIndices" =>
        /\ raised <=> args[2] \notin Range(args[1])
        /\ raised => loopable = NoLoopableIndices
        /\ ~ raised => loopable = LoopableIndices(args[1], args[2])
    /\ (op = "getNextIndex" /\ distinct(loopable.indices)) =>
        LET S == loopable.indices
            n == Len(S)
            p == PositionIn(S, loopable.initialIndex)
            k == calls - 1
        IN  /\ ~ raised
            /\ result = S[((p + k) % n) + 1]
            /\ k = 0 => result = loopable.initialIndex
            /\ (k > 0 /\ (p + k) % n = 0) => result = S[1]

\* The sixth call on the indices 3, 1, 2 started at 1 has wrapped twice and
\* returns the first element.
C17_Witness ==
    /\ op = "getNextIndex"
    /\ loopable.indices = <<3, 1, 2>>
    /\ loopable.initialIndex = 1
    /\ calls = 6
    /\ result = 3

\* The index reached from `index` by previous steps that has no previous index.
WalkedToExhaustion(findPreviousIndex, index) ==
    CHOOSE first \in DOMAIN findPreviousIndex :
        /\ findPreviousIndex[first] = Undefined
        /\ \E n \in 0..Cardinality(DOMAIN findPreviousIndex) :
            stepReduce(findPreviousIndex, index, n) = first

\* The coordinate reached from the reference by walking previous to
\* exhaustion on both axes.
WalkedOrigin ==
    Coordinate(WalkedToExhaustion(findPreviousColumnIndex, reference.columnIndex),
               WalkedToExhaustion(findPreviousRowIndex, reference.rowIndex))

\* C18: along every sequence of navigator operations the cached origin, once
\* set, keeps its value, and is only ever set to the coordinate reached by
\* walking previous to exhaustion on both axes from the reference; every call
\* of getGridOrigin returns that coordinate; no operation changes the
\* adjacency functions or the reference.
C18_OriginCachedOnce ==
    [][/\ cachedOrigin # UndefinedCoordinate => cachedOrigin' = cachedOrigin
       /\ cachedOrigin' \in {UndefinedCoordinate, WalkedOrigin}
       /\ op' = "getGridOrigin" => (result' = WalkedOrigin /\ cachedOrigin' = WalkedOrigin)
       /\ numCols' = numCols
       /\ numRows' = numRows
       /\ reference' = reference]_vars

\* getGridOrigin has returned the origin A1 of a navigator built from C3 and
\* the origin is cached.
C18_Witness ==
    /\ op = "getGridOrigin"
    /\ reference = Coordinate(3, 3)
    /\ result = Coordinate(1, 1)
    /\ cachedOrigin = Coordinate(1, 1)

\* `next` applied `count` times to `initial`: undefined once an application
\* has hit a boundary.
RECURSIVE Applied(_, _, _)
Applied(next, initial, count) ==
    IF count = 0 THEN initial
    ELSE LET before == Applied(next, initial, count - 1)
         IN  IF before = Undefined THEN Undefined ELSE next[before]

\* C19: findNextIndexByStep(next, initial, steps) raises, returning no index,
\* exactly when steps is negative or not an integer; otherwise it returns
\* next applied steps times to initial, initial itself for steps = 0, and
\* none when one of those applications hits a boundary.
C19_FindNextIndexByStep ==
    op = "findNextIndexByStep" =>
        LET next == args[1]
            initial == args[2]
            steps == args[3]
        IN  /\ raised <=> (steps.half \/ steps.whole < 0)
            /\ raised => result = NoResult
            /\ ~ raised =>
                /\ result = Applied(next, initial, steps.whole)
                /\ steps.whole = 0 => result = initial
                /\ (\E n \in 0..(steps.whole - 1) : Applied(next, initial, n + 1) = Undefined)
                    <=> result = Undefined

\* The documented example: from 1 to 3 with a step of 2.
C19_Witness ==
    /\ op = "findNextIndexByStep"
    /\ numRows = 3
    /\ args = <<findNextRowIndex, 1, Number(2, FALSE)>>
    /\ ~ raised
    /\ result = 3

=============================================================================
